---- MODULE Spec2Model ----
(***************************************************************************)
(* Student-Gallery backend: the Express server that validates              *)
(* GET /api/images, walks the Drive folder hierarchy through folderCache,  *)
(* lists the images, and proxies GET /api/image/:imageId; and the React    *)
(* component (App.jsx) that submits the form and shows the images.         *)
(*                                                                         *)
(* The repository holds two builds of the server: the level-only one       *)
(* (src/backend/server.js, getLevelImages) and the roll-number one         *)
(* (src/unnamed/part_000, getStudentImages).  The variable `variant` says  *)
(* which build is running; it is fixed at start-up.                        *)
(*                                                                         *)
(* JavaScript strings are modelled as sequences of one-character strings,  *)
(* so that the regular expressions and template strings of the source are  *)
(* computed, not assumed.                                                  *)
(***************************************************************************)
EXTENDS Integers, Sequences, FiniteSets, TLC

VARIABLES
    variant,      \* "level" (server.js) or "roll" (part_000)
    folderCache,  \* const folderCache = {}: path key -> folder id
    hits,         \* the limiter's per-IP counter of the current window
    passed,       \* per IP: requests of the current window that reached a route
    req,          \* per request slot: the HTTP request (route, ip, query)
    pc,           \* per request slot: the upstream call its chain is awaiting
    local,        \* per request slot: the locals of the image-listing function
    timer,        \* per request slot: the setTimeout of the handler
    res,          \* per request slot: the response sent, or NoRes
    calls,        \* per request slot: the upstream calls issued, in order
    atStart,      \* per request slot: what the request found when it started
    userImages,   \* App.jsx: useState([])
    loading,      \* App.jsx: useState(false)
    submitted,    \* App.jsx: useState(false)
    formErrors,   \* App.jsx: useState({name: '', rollNumber: ''})
    selectedImage, \* App.jsx: useState(null)
    isModalOpen,  \* App.jsx: useState(false)
    fetch,        \* App.jsx: the fetchUserImages call, and how its request ended
    toasts        \* App.jsx: the toasts of the handler that ran last

\* the state of the server, and of the page
backend == <<variant, folderCache, hits, passed, req, pc, local, timer, res, calls, atStart>>
frontend == <<userImages, loading, submitted, formErrors, selectedImage, isModalOpen,
              fetch, toasts>>

vars == <<backend, frontend>>

----------------------------------------------------------------------------
(* Bounds of the model *)

\* how many requests beyond the limit an IP sends in one window
MaxOver == 1
\* how many files beyond MAX_IMAGES the upstream listing returns
MaxExtra == 1
\* how many requests the other IPs have sent while one IP fills its window
MaxLight == 2
\* how many images the longest list that the page is sent holds
MaxShown == 2

AllReqs == {"r1", "r2"}
IPs == {"ip1", "ip2"}
FolderIds == {"f1", "f2"}

----------------------------------------------------------------------------
(* JavaScript values of req.query *)

Digits == {"0", "1", "2", "3", "4", "5", "6", "7", "8", "9"}
Letters == {"U", "G", "P", "H", "D", "X", "u", "g", "I", "m", "a", "e", "s"}

Undef == [t |-> "undefined", v |-> <<>>, a |-> <<>>]
S(s) == [t |-> "string", v |-> s, a |-> <<>>]
Arr(a) == [t |-> "array", v |-> <<>>, a |-> a]

UG == <<"U", "G">>
PG == <<"P", "G">>
PHD == <<"P", "H", "D">>

\* !x is false for a non-empty string and for every array
Truthy(x) == x.t = "array" \/ (x.t = "string" /\ x.v # <<>>)

RECURSIVE Join(_)
Join(a) == IF a = <<>> THEN <<>>
           ELSE IF Len(a) = 1 THEN a[1]
           ELSE a[1] \o <<",">> \o Join(Tail(a))

\* String(x), as RegExp.prototype.test coerces its argument
StringOf(x) == IF x.t = "string" THEN x.v
               ELSE IF x.t = "array" THEN Join(x.a)
               ELSE <<"u", "n", "d", "e", "f", "i", "n", "e", "d">>

\* /^\d{10}$/.test(x)
TenDigitsOff(x) == Len(StringOf(x)) >= 10
TenDigits(x) ==
    LET s == StringOf(x)
    IN  Len(s) = 10 /\ \A i \in 1..Len(s) : s[i] \in Digits

allowedLevels == {UG, PG, PHD}

\* allowedLevels.includes(x): strict equality with one of the three strings
IncludesAny(x) == x.t = "string"
Includes(x) == x.t = "string" /\ x.v \in allowedLevels

\* name.replace(/[^a-zA-Z0-9]/g, ''), for a string
sanitizeFileName(s) == SelectSeq(s, LAMBDA c : c \in Digits \cup Letters)

----------------------------------------------------------------------------
(* Responses *)

NoRes == [status |-> 0, kind |-> "none", success |-> FALSE, message |-> "",
          level |-> <<>>, rollNumber |-> <<>>, images |-> <<>>]

\* res.status(status).json({success: false, message})
JsonError(status, msg) ==
    [status |-> status, kind |-> "error", success |-> FALSE, message |-> msg,
     level |-> <<>>, rollNumber |-> <<>>, images |-> <<>>]

\* res.json({success: true, level, rollNumber?, images})
JsonImages(level, roll, images) ==
    [status |-> 200, kind |-> "list", success |-> TRUE, message |-> "",
     level |-> level, rollNumber |-> roll, images |-> images]

\* res.status(status).send(text)
Text(status, text) ==
    [status |-> status, kind |-> "text", success |-> FALSE, message |-> text,
     level |-> <<>>, rollNumber |-> <<>>, images |-> <<>>]

\* response.data.pipe(res): the file's bytes are streamed with status 200
Stream ==
    [status |-> 200, kind |-> "stream", success |-> FALSE, message |-> "",
     level |-> <<>>, rollNumber |-> <<>>, images |-> <<>>]

----------------------------------------------------------------------------
(* The limiter: rateLimit({windowMs: 15 * 60 * 1000, max: 100}) on /api/ *)

rateMax == 100

RouteNames == {"images", "image", "other", "home"}

\* app.use('/api/', limiter): the routes the limiter is mounted on
\* the request's path starts with /api/
UnderApi(route) == route \in {"images", "image", "other"}

Limited(route) == UnderApi(route)

\* the limiter rejects a request once the IP's count has passed max
OverLimitLate(count) == count > rateMax + 1
OverLimit(count) == count > rateMax

TooMany == JsonError(429, "Too many requests, please try again later")

----------------------------------------------------------------------------
(* validateInput *)

\* server.js: only the level is looked at
validateInputLevel(q) ==
    IF ~Truthy(q.level) THEN JsonError(400, "Level is required")
    ELSE IF ~Includes(q.level) THEN JsonError(400, "Level must be one of: UG, PG, PHD")
    ELSE NoRes

\* part_000: roll number and level
validateInputRoll(q) ==
    IF ~Truthy(q.roll) \/ ~Truthy(q.level)
        THEN JsonError(400, "Roll number and level are required")
    ELSE IF ~TenDigits(q.roll)
        THEN JsonError(400, "Roll number must be exactly 10 digits")
    ELSE IF ~Includes(q.level)
        THEN JsonError(400, "Level must be one of: UG, PG, PHD")
    ELSE NoRes

\* the 400 response of validateInput, or NoRes when it calls next()
validateInput(q) ==
    IF variant = "roll" THEN validateInputRoll(q) ELSE validateInputLevel(q)

----------------------------------------------------------------------------
(* folderCache and the upstream calls *)

NoId == ""

ImagesKey == <<"I", "m", "a", "g", "e", "s">>
\* `Images/${level}`
LevelKeyShared(level) == ImagesKey \o <<"/">>
LevelKey(level) == ImagesKey \o <<"/">> \o level

\* folderCache[key]: undefined (NoId) when the key was never written
CacheGetMiss(cache, key) == NoId
CacheGet(cache, key) == IF key \in DOMAIN cache THEN cache[key] ELSE NoId

\* folderCache[key] = id
CachePutOnly(cache, key, id) == [k \in {key} |-> id]
CachePutIfAbsent(cache, key, id) ==
    [k \in DOMAIN cache \cup {key} |-> IF k \in DOMAIN cache THEN cache[k] ELSE id]
CachePut(cache, key, id) ==
    [k \in DOMAIN cache \cup {key} |-> IF k = key THEN id ELSE cache[k]]

\* an upstream call, as issued: drive.files.list / drive.files.get
\* (out and n record how it settled: "pending", "error", or "ok" with n files;
\* late marks a root folder id resolved when the request was answered already)
Call(kind, name, parent) ==
    [kind |-> kind, name |-> name, parent |-> parent, out |-> "pending", n |-> 0,
     late |-> FALSE]

\* what an upstream call settles with: a rejection, or the files it lists
Err == [ok |-> FALSE, files |-> <<>>]
Ok(files) == [ok |-> TRUE, files |-> files]

FolderReplies == {Err, Ok(<<>>)} \cup {Ok(<<f>>) : f \in FolderIds}
StudentReplies == {Err, Ok(<<>>), Ok(<<"s1">>)}

\* the upstream listing of n image files, in upstream order
Files(n) == [i \in 1..n |-> [id |-> i, mimeType |-> "image/jpeg"]]

MAX_IMAGES == 10000

Min(a, b) == IF a < b THEN a ELSE b

\* Array.prototype.slice(start, end) for 0 <= start <= end
sliceAll(s, start, end) == s
slice(s, start, end) == SubSeq(s, start + 1, Min(end, Len(s)))

\* file => ({id: file.id, url: `/api/image/${file.id}`, type: file.mimeType})
ImageRef(file) ==
    [id |-> file.id, url |-> <<"/api/image/", file.id>>, type |-> file.mimeType]

\* imagesResponse.data.files.slice(0, MAX_IMAGES).map(...)
LimitedImages(files) ==
    LET limitedFiles == slice(files, 0, MAX_IMAGES)
    IN  [i \in 1..Len(limitedFiles) |-> ImageRef(limitedFiles[i])]

----------------------------------------------------------------------------
(* State *)

NoReq == [route |-> "none", ip |-> "", level |-> Undef, roll |-> Undef, imageId |-> ""]

NoLocal == [level |-> <<>>, rollNumber |-> <<>>, imagesFolderId |-> NoId,
            levelFolderId |-> NoId, folderId |-> NoId]

NoStart == [answered |-> {}, cached |-> {}, cache |-> [k \in {} |-> NoId], count |-> 0]

\* selectedImage === null
NoImage == [id |-> 0, url |-> <<>>, type |-> ""]

\* {name: '', rollNumber: ''}
NoErrors == [name |-> "", rollNumber |-> ""]

\* how the request of a fetchUserImages call ended: with a response of some
\* status and body, or with none (err.request); "pending" while it is awaited
NoOutcome == [kind |-> "pending", res |-> NoRes]
Response(response) == [kind |-> "response", res |-> response]
NoResponse == [kind |-> "none", res |-> NoRes]

\* no fetchUserImages call was made yet
NoFetch == [pos |-> "idle", rollNumber |-> <<>>, level |-> <<>>, outcome |-> NoOutcome]

InitApp ==
    /\ userImages = <<>>
    /\ loading = FALSE
    /\ submitted = FALSE
    /\ formErrors = NoErrors
    /\ selectedImage = NoImage
    /\ isModalOpen = FALSE
    /\ fetch = NoFetch
    /\ toasts = <<>>

Init ==
    /\ InitApp
    /\ variant \in {"level", "roll"}
    /\ folderCache = [k \in {} |-> NoId]
    /\ hits = [ip \in IPs |-> 0]
    /\ passed = [ip \in IPs |-> 0]
    /\ req = [r \in AllReqs |-> NoReq]
    /\ pc = [r \in AllReqs |-> "idle"]
    /\ local = [r \in AllReqs |-> NoLocal]
    /\ timer = [r \in AllReqs |-> "none"]
    /\ res = [r \in AllReqs |-> NoRes]
    /\ calls = [r \in AllReqs |-> <<>>]
    /\ atStart = [r \in AllReqs |-> NoStart]

Answered(r) == res[r] # NoRes

\* the third step of the chain: the level folder's images (server.js), or the
\* roll-number folder under the level folder (part_000)
Step3(loc) ==
    IF variant = "roll"
    THEN Call("student", loc.rollNumber, loc.levelFolderId)
    ELSE Call("images", <<>>, loc.levelFolderId)

\* the call the chain issues once the root folder id is known
AfterRootAlwaysLevel(loc) == Call("level", loc.level, loc.imagesFolderId)
AfterRoot(loc) ==
    IF loc.levelFolderId = NoId
    THEN Call("level", loc.level, loc.imagesFolderId)
    ELSE Step3(loc)

\* the first call of the chain, from the two cache reads at its top
FirstCall(loc) ==
    IF loc.imagesFolderId = NoId
    THEN Call("root", ImagesKey, NoId)
    ELSE AfterRoot(loc)

\* the calls of slot r, with the pending one settled by `out`
Settled(r, out) ==
    [calls[r] EXCEPT ![Len(calls[r])] =
        [@ EXCEPT !.out = IF out.ok THEN "ok" ELSE "error", !.n = Len(out.files),
                  !.late = Answered(r) /\ pc[r] = "root" /\ out.ok /\ out.files # <<>>]]

\* the chain of slot r goes on with locals loc and issues call c
Issue(r, log, loc, c) ==
    /\ local' = [local EXCEPT ![r] = loc]
    /\ calls' = [calls EXCEPT ![r] = Append(log, c)]
    /\ pc' = [pc EXCEPT ![r] = c.kind]

\* the 200 response of the /api/images handler
Success(r, images) == JsonImages(local[r].level, local[r].rollNumber, images)

\* the catch block of the /api/images handler
RetrieveErrorDetailed == JsonError(500, "Request timeout")
RetrieveError == JsonError(500, "Error retrieving images")

\* the chain of slot r returns `images`: the race is won by imagesPromise when
\* the handler is still waiting, and is ignored when the timer won before
SettleAlways(r, out, images) ==
    /\ pc' = [pc EXCEPT ![r] = "done"]
    /\ res' = [res EXCEPT ![r] = Success(r, images)]
    /\ calls' = [calls EXCEPT ![r] = Settled(r, out)]
    /\ UNCHANGED local
Settle(r, out, images) ==
    /\ pc' = [pc EXCEPT ![r] = "done"]
    /\ res' = [res EXCEPT ![r] = IF Answered(r) THEN @ ELSE Success(r, images)]
    /\ calls' = [calls EXCEPT ![r] = Settled(r, out)]
    /\ UNCHANGED local

\* the chain of slot r throws: the handler's catch block answers, when the
\* handler is still waiting
CaughtRethrows(r, out) ==
    /\ pc' = [pc EXCEPT ![r] = "done"]
    /\ res' = [res EXCEPT ![r] = IF Answered(r) THEN @ ELSE RetrieveError]
    /\ calls' = [calls EXCEPT ![r] = Settled(r, out)]
    /\ UNCHANGED local

\* catch (error) { console.error(...); return []; } of the listing function
Caught(r, out) == Settle(r, out, <<>>)

----------------------------------------------------------------------------
(* Requests *)

\* the locals of the handler and of the top of getLevelImages/getStudentImages:
\* the sanitized query fields and the two cache reads
StartLocals(q) ==
    LET level == sanitizeFileName(q.level.v)
    IN  [level |-> level,
         rollNumber |-> IF variant = "roll" THEN sanitizeFileName(q.roll.v) ELSE <<>>,
         imagesFolderId |-> CacheGet(folderCache, ImagesKey),
         levelFolderId |-> CacheGet(folderCache, LevelKey(level)),
         folderId |-> NoId]

\* sanitizeFileName throws a TypeError on a value that is no string (part_000
\* sanitizes rollNumber, which passes validateInput as a one-element array)
SanitizeThrows(q) == variant = "roll" /\ q.roll.t # "string"

\* a request answered at once, with no upstream call and no timer
AnswerNow(r, response) ==
    /\ res' = [res EXCEPT ![r] = response]
    /\ pc' = [pc EXCEPT ![r] = "done"]
    /\ UNCHANGED <<local, calls, timer>>

\* validateInput answers 400 and, for want of a return, still calls next()
ImagesRouteFallsThrough(r, q) ==
    /\ timer' = [timer EXCEPT ![r] = "armed"]
    /\ Issue(r, <<>>, StartLocals(q), FirstCall(StartLocals(q)))
    /\ res' = [res EXCEPT ![r] = validateInput(q)]

\* app.get('/api/images', validateInput, async (req, res) => ...), up to its
\* first await
ImagesRoute(r, q) ==
    IF validateInput(q) # NoRes THEN AnswerNow(r, validateInput(q))
    ELSE IF SanitizeThrows(q) THEN AnswerNow(r, RetrieveError)
    ELSE /\ timer' = [timer EXCEPT ![r] = "armed"]
         /\ Issue(r, <<>>, StartLocals(q), FirstCall(StartLocals(q)))
         /\ UNCHANGED res

\* app.get('/api/image/:imageId', ...), up to its first await
ImageRoute(r, q) ==
    /\ calls' = [calls EXCEPT ![r] = Append(@, Call("meta", <<>>, q.imageId))]
    /\ pc' = [pc EXCEPT ![r] = "meta"]
    /\ UNCHANGED <<local, timer, res>>

\* the routes behind the limiter, then the 404 handler
Dispatch(r, q) ==
    CASE q.route = "images" -> ImagesRoute(r, q)
      [] q.route = "image" -> ImageRoute(r, q)
      [] q.route = "home" ->
            AnswerNow(r, Text(200, IF variant = "roll" THEN "this is home page"
                                                       ELSE "This is the home page"))
      [] OTHER -> AnswerNow(r, JsonError(404, "Resource not found"))

\* an HTTP request from ip arrives in slot r: the limiter, then the route
Request(r, ip, q) ==
    /\ req[r] = NoReq
    /\ hits[ip] < rateMax + MaxOver
    /\ \A o \in IPs \ {ip} : hits[o] <= MaxLight \/ hits[ip] < MaxLight
    /\ req' = [req EXCEPT ![r] = [route |-> q.route, ip |-> ip, level |-> q.level,
                                  roll |-> q.roll, imageId |-> q.imageId]]
    /\ atStart' = [atStart EXCEPT ![r] =
                      [answered |-> {o \in AllReqs : Answered(o)},
                       cached |-> DOMAIN folderCache,
                       cache |-> folderCache,
                       count |-> IF Limited(q.route) THEN hits[ip] + 1 ELSE 0]]
    /\ hits' = IF Limited(q.route) THEN [hits EXCEPT ![ip] = @ + 1] ELSE hits
    /\ IF Limited(q.route) /\ OverLimit(hits[ip] + 1)
       THEN /\ AnswerNow(r, TooMany)
            /\ UNCHANGED passed
       ELSE /\ Dispatch(r, q)
            /\ passed' = IF UnderApi(q.route) THEN [passed EXCEPT ![ip] = @ + 1] ELSE passed
    /\ UNCHANGED <<frontend, variant, folderCache>>

\* the limiter's window of ip ends: its counter starts again
WindowReset(ip) ==
    /\ hits[ip] > 0
    /\ hits' = [hits EXCEPT ![ip] = 0]
    /\ passed' = [passed EXCEPT ![ip] = 0]
    /\ UNCHANGED <<frontend, variant, folderCache, req, pc, local, timer, res, calls, atStart>>

----------------------------------------------------------------------------
(* The chain of upstream calls of /api/images *)

\* drive.files.list for the folder named 'Images' settles with `out`
RootReply(r, out) ==
    /\ pc[r] = "root"
    /\ IF ~out.ok \/ Len(out.files) = 0
       THEN /\ Caught(r, out)
            /\ UNCHANGED folderCache
       ELSE LET loc == [local[r] EXCEPT !.imagesFolderId = out.files[1]]
            IN  /\ folderCache' = CachePut(folderCache, ImagesKey, out.files[1])
                /\ Issue(r, Settled(r, out), loc, AfterRoot(loc))
                /\ UNCHANGED res
    /\ UNCHANGED <<frontend, variant, hits, passed, req, timer, atStart>>

\* drive.files.list for the level folder settles with `out`
LevelReply(r, out) ==
    /\ pc[r] = "level"
    /\ IF ~out.ok \/ Len(out.files) = 0
       THEN /\ Caught(r, out)
            /\ UNCHANGED folderCache
       ELSE LET loc == [local[r] EXCEPT !.levelFolderId = out.files[1]]
            IN  /\ folderCache' = CachePut(folderCache, LevelKey(loc.level), out.files[1])
                /\ Issue(r, Settled(r, out), loc, Step3(loc))
                /\ UNCHANGED res
    /\ UNCHANGED <<frontend, variant, hits, passed, req, timer, atStart>>

\* part_000: drive.files.list for the roll-number folder settles with `out`
StudentReply(r, out) ==
    /\ pc[r] = "student"
    /\ IF ~out.ok
       THEN Caught(r, out)
       ELSE IF Len(out.files) = 0
       THEN Settle(r, out, <<>>)
       ELSE LET loc == [local[r] EXCEPT !.folderId = out.files[1]]
            IN  /\ Issue(r, Settled(r, out), loc, Call("images", <<>>, out.files[1]))
                /\ UNCHANGED res
    /\ UNCHANGED <<frontend, variant, folderCache, hits, passed, req, timer, atStart>>

\* drive.files.list for the image files settles with `out`
ImagesReply(r, out) ==
    /\ pc[r] = "images"
    /\ IF out.ok THEN Settle(r, out, LimitedImages(out.files)) ELSE Caught(r, out)
    /\ UNCHANGED <<frontend, variant, folderCache, hits, passed, req, timer, atStart>>

\* the 30 s timer of the handler fires: timeoutPromise rejects, and the handler,
\* when it is still awaiting the race, answers from its catch block
TimerFireCancels(r) ==
    /\ timer[r] = "armed"
    /\ timer' = [timer EXCEPT ![r] = "fired"]
    /\ res' = [res EXCEPT ![r] = IF Answered(r) THEN @ ELSE RetrieveError]
    /\ pc' = [pc EXCEPT ![r] = "done"]
    /\ UNCHANGED <<frontend, variant, folderCache, hits, passed, req, local, calls, atStart>>
TimerFire(r) ==
    /\ timer[r] = "armed"
    /\ timer' = [timer EXCEPT ![r] = "fired"]
    /\ res' = [res EXCEPT ![r] = IF Answered(r) THEN @ ELSE RetrieveError]
    /\ UNCHANGED <<frontend, variant, folderCache, hits, passed, req, pc, local, calls, atStart>>

----------------------------------------------------------------------------
(* The image proxy *)

\* res.status(404).send('Image not found') of the proxy's catch block
NotFoundAs500 == Text(500, "Image not found")
NotFound == Text(404, "Image not found")

\* drive.files.get({fileId, fields: 'mimeType,name'}) settles
MetaReply(r, ok) ==
    /\ pc[r] = "meta"
    /\ IF ok
       THEN /\ calls' = [calls EXCEPT ![r] =
                          Append(Settled(r, Ok(<<>>)), Call("media", <<>>, req[r].imageId))]
            /\ pc' = [pc EXCEPT ![r] = "media"]
            /\ UNCHANGED res
       ELSE /\ res' = [res EXCEPT ![r] = NotFound]
            /\ pc' = [pc EXCEPT ![r] = "done"]
            /\ calls' = [calls EXCEPT ![r] = Settled(r, Err)]
    /\ UNCHANGED <<frontend, variant, folderCache, hits, passed, req, local, timer, atStart>>

\* drive.files.get({fileId, alt: 'media'}, {responseType: 'stream'}) settles
MediaReply(r, ok) ==
    /\ pc[r] = "media"
    /\ res' = [res EXCEPT ![r] = IF ok THEN Stream ELSE NotFound]
    /\ pc' = [pc EXCEPT ![r] = "done"]
    /\ calls' = [calls EXCEPT ![r] = Settled(r, IF ok THEN Ok(<<>>) ELSE Err)]
    /\ UNCHANGED <<frontend, variant, folderCache, hits, passed, req, local, timer, atStart>>

----------------------------------------------------------------------------
(* Inputs *)

D10 == <<"1", "2", "3", "4", "5", "6", "7", "8", "9", "0">>
D9 == SubSeq(D10, 1, 9)
D11 == D10 \o <<"1">>
X10 == D9 \o <<"a">>

LevelInputs ==
    {Undef, S(<<>>), S(UG), S(PG), S(PHD), S(<<"u", "g">>), S(<<"X">>), Arr(<<UG>>)}

RollInputs ==
    {Undef, S(<<>>), S(D9), S(D10), S(D11), S(X10), Arr(<<D10>>), Arr(<<D9, D9>>)}

Query(route, level, roll, imageId) ==
    [route |-> route, level |-> level, roll |-> roll, imageId |-> imageId]

ImagesQueries(levels, rolls) == {Query("images", l, n, "") : l \in levels, n \in rolls}

OtherQueries ==
    {Query("image", Undef, Undef, "img1"), Query("other", Undef, Undef, ""),
     Query("home", Undef, Undef, "")}

\* every query of the model
AllQueries == ImagesQueries(LevelInputs, RollInputs) \cup OtherQueries

\* the queries of the runs with two requests in flight
FewQueries ==
    ImagesQueries({S(UG), S(PG), S(<<"X">>)}, {S(D10)})
        \cup {Query("image", Undef, Undef, "img1")}

SmallListings == {Err, Ok(Files(2))}
LargeListings == {Err, Ok(Files(1)), Ok(Files(MAX_IMAGES)), Ok(Files(MAX_IMAGES + MaxExtra))}

----------------------------------------------------------------------------
(* Specifications *)

\* two requests, possibly in flight together
Next ==
    \E r \in AllReqs :
        \/ \E q \in FewQueries : Request(r, "ip1", q)
        \/ \E out \in FolderReplies : RootReply(r, out)
        \/ \E out \in FolderReplies : LevelReply(r, out)
        \/ \E out \in StudentReplies : StudentReply(r, out)
        \/ \E out \in SmallListings : ImagesReply(r, out)
        \/ TimerFire(r)
        \/ \E ok \in BOOLEAN : MetaReply(r, ok)
        \/ \E ok \in BOOLEAN : MediaReply(r, ok)

Spec == Init /\ [][Next]_vars

\* one request, with every query of the model and listings beyond MAX_IMAGES
NextSeq ==
    \E r \in {"r1"} :
        \/ \E ip \in IPs, q \in AllQueries : Request(r, ip, q)
        \/ \E out \in FolderReplies : RootReply(r, out)
        \/ \E out \in FolderReplies : LevelReply(r, out)
        \/ \E out \in StudentReplies : StudentReply(r, out)
        \/ \E out \in LargeListings : ImagesReply(r, out)
        \/ TimerFire(r)
        \/ \E ok \in BOOLEAN : MetaReply(r, ok)
        \/ \E ok \in BOOLEAN : MediaReply(r, ok)

SeqSpec == Init /\ [][NextSeq]_vars

\* the request of slot r is over (answered, chain returned, timer fired or
\* never set): the server goes on to take the next request
Recycle(r) ==
    /\ pc[r] = "done"
    /\ Answered(r)
    /\ timer[r] # "armed"
    /\ req' = [req EXCEPT ![r] = NoReq]
    /\ pc' = [pc EXCEPT ![r] = "idle"]
    /\ local' = [local EXCEPT ![r] = NoLocal]
    /\ timer' = [timer EXCEPT ![r] = "none"]
    /\ res' = [res EXCEPT ![r] = NoRes]
    /\ calls' = [calls EXCEPT ![r] = <<>>]
    /\ atStart' = [atStart EXCEPT ![r] = NoStart]
    /\ UNCHANGED <<frontend, variant, folderCache, hits, passed>>

LimitQueries ==
    ImagesQueries({S(UG), Undef}, {S(D10)})
        \cup {Query("image", Undef, Undef, "img1"), Query("other", Undef, Undef, "")}

LimitReplies == {Err, Ok(<<"f1">>)}

\* one request after the other, from two IPs, through whole limiter windows
NextLimit ==
    \/ \E r \in {"r1"} :
        \/ \E ip \in IPs, q \in LimitQueries : Request(r, ip, q)
        \/ \E out \in LimitReplies : RootReply(r, out)
        \/ \E out \in LimitReplies : LevelReply(r, out)
        \/ \E out \in LimitReplies : StudentReply(r, out)
        \/ \E out \in {Ok(Files(1))} : ImagesReply(r, out)
        \/ TimerFire(r)
        \/ \E ok \in BOOLEAN : MetaReply(r, ok)
        \/ \E ok \in BOOLEAN : MediaReply(r, ok)
        \/ Recycle(r)
    \/ \E ip \in IPs : WindowReset(ip)

LimitSpec == Init /\ [][NextLimit]_vars

----------------------------------------------------------------------------
(* The page: App.jsx *)

\* import.meta.env.VITE_BACKEND_URL
API_URL == "http://backend"

\* a toast: toast.success(...) or toast.error(...); n is the number the
\* message is built with (the image count, the status), or 0
Toast(kind, text, n) == [kind |-> kind, text |-> text, n |-> n]

\* name.trim()
trim(s) == SelectSeq(s, LAMBDA c : c # " ")

validateName(name) ==
    IF name = <<>> \/ trim(name) = <<>> THEN "Name is required" ELSE ""

validateRollNumber(rollNumber) ==
    IF rollNumber = <<>> THEN "Roll Number is required"
    ELSE IF \E i \in 1..Len(rollNumber) : rollNumber[i] \notin Digits
        THEN "Roll Number must contain only digits"
    ELSE IF Len(rollNumber) # 10 THEN "Roll Number must be exactly 10 digits"
    ELSE ""

\* axios rejects the promise of a response whose status is outside 2xx
\* (err.response), and of a request that got no response (err.request)
AxiosRejects(o) == o.kind = "none" \/ o.res.status < 200 \/ o.res.status >= 300

\* the try block throws: axios rejected, or the body has no truthy success
Throws(o) == AxiosRejects(o) \/ ~o.res.success

\* image.url.startsWith('/'): the URLs of the server start with /api/image/
StartsWithSlash(url) == url # <<>> /\ url[1] = "/api/image/"

\* data.images.map(image => ({...image, url: ...}))
imagesWithFullUrls(images) ==
    [i \in 1..Len(images) |->
        [images[i] EXCEPT !.url = IF StartsWithSlash(@) THEN <<API_URL>> \o @ ELSE @]]

\* the message of the catch block
errorMessage(o) ==
    IF o.kind = "none" THEN Toast("error", "No response from server. Is the server running?", 0)
    ELSE IF AxiosRejects(o)
        THEN IF o.res.message # "" THEN Toast("error", o.res.message, 0)
             ELSE Toast("error", "Error: ", o.res.status)
    ELSE IF o.res.message # "" THEN Toast("error", o.res.message, 0)
    ELSE Toast("error", "Failed to fetch images", 0)

\* fetchUserImages, up to its await: setLoading(true) and the GET
fetchUserImages(rollNumber, level) ==
    /\ loading' = TRUE
    /\ fetch' = [pos |-> "awaiting", rollNumber |-> rollNumber, level |-> level,
                 outcome |-> NoOutcome]
    /\ toasts' = <<>>

\* the form's onSubmit; the form is rendered while submitted is false and its
\* button is disabled while loading is true
handleSubmit(name, rollNumber, level) ==
    /\ ~submitted
    /\ ~loading
    /\ formErrors' = [name |-> validateName(name),
                      rollNumber |-> validateRollNumber(rollNumber)]
    /\ IF validateName(name) # "" \/ validateRollNumber(rollNumber) # ""
       THEN /\ toasts' =
                  (IF validateName(name) # ""
                   THEN <<Toast("error", validateName(name), 0)>> ELSE <<>>)
                  \o (IF validateRollNumber(rollNumber) # ""
                      THEN <<Toast("error", validateRollNumber(rollNumber), 0)>> ELSE <<>>)
            /\ UNCHANGED <<loading, fetch>>
       ELSE fetchUserImages(rollNumber, level)
    /\ UNCHANGED <<backend, userImages, submitted, selectedImage, isModalOpen>>

\* fetchUserImages, from its await on: the request ended with outcome o
FetchSettlesSubmitted(o) ==
    /\ fetch.pos = "awaiting"
    /\ userImages' = IF Throws(o) THEN userImages ELSE imagesWithFullUrls(o.res.images)
    /\ submitted' = TRUE
    /\ toasts' = <<errorMessage(o)>>
    /\ loading' = FALSE
    /\ fetch' = [fetch EXCEPT !.pos = "done", !.outcome = o]
    /\ UNCHANGED <<backend, formErrors, selectedImage, isModalOpen>>
FetchSettles(o) ==
    /\ fetch.pos = "awaiting"
    /\ IF Throws(o)
       THEN /\ toasts' = <<errorMessage(o)>>
            /\ UNCHANGED <<userImages, submitted>>
       ELSE /\ userImages' = imagesWithFullUrls(o.res.images)
            /\ submitted' = TRUE
            /\ toasts' = IF Len(o.res.images) > 0
                         THEN <<Toast("success", "Found images for Roll No", Len(o.res.images))>>
                         ELSE <<Toast("error", "No images found for Roll No", 0)>>
    /\ loading' = FALSE
    /\ fetch' = [fetch EXCEPT !.pos = "done", !.outcome = o]
    /\ UNCHANGED <<backend, formErrors, selectedImage, isModalOpen>>

\* onClick={() => setSubmitted(false)} of "Back to search", which is rendered
\* while submitted is true and loading is false
BackToSearch ==
    /\ submitted
    /\ ~loading
    /\ submitted' = FALSE
    /\ UNCHANGED <<backend, userImages, loading, formErrors, selectedImage, isModalOpen,
                   fetch, toasts>>

handleNameChange(value) ==
    /\ ~submitted
    /\ formErrors' = [formErrors EXCEPT !.name = validateName(value)]
    /\ UNCHANGED <<backend, userImages, loading, submitted, selectedImage, isModalOpen,
                   fetch, toasts>>

handleRollNumberChange(value) ==
    /\ ~submitted
    /\ formErrors' =
          IF value # <<>> /\ \E i \in 1..Len(value) : value[i] \notin Digits
          THEN formErrors
          ELSE [formErrors EXCEPT !.rollNumber = validateRollNumber(value)]
    /\ UNCHANGED <<backend, userImages, loading, submitted, selectedImage, isModalOpen,
                   fetch, toasts>>

\* the click on the i-th image of the results view
openImageModal(i) ==
    /\ submitted
    /\ ~loading
    /\ i \in DOMAIN userImages
    /\ selectedImage' = userImages[i]
    /\ isModalOpen' = TRUE
    /\ UNCHANGED <<backend, userImages, loading, submitted, formErrors, fetch, toasts>>

closeImageModal ==
    /\ isModalOpen
    /\ selectedImage # NoImage
    /\ isModalOpen' = FALSE
    /\ selectedImage' = NoImage
    /\ UNCHANGED <<backend, userImages, loading, submitted, formErrors, fetch, toasts>>

\* what is typed into the form
NameInputs == {<<>>, <<" ">>, <<"a">>}
RollNumberInputs == {<<>>, D9, D10, X10}

\* how the GET of a call can end: the responses of the server to it, a 200
\* body with success false, a 200 body that is no JSON of the server, an
\* image with an absolute URL, and no response at all
Outcomes(f) ==
    {NoResponse}
        \cup {Response(JsonImages(f.level, f.rollNumber, LimitedImages(Files(n)))) : n \in 0..MaxShown}
        \cup {Response(JsonImages(f.level, f.rollNumber,
                    <<[id |-> 1, url |-> <<"https://cdn/", 1>>, type |-> "image/jpeg"]>>))}
        \cup {Response(JsonError(400, "Level must be one of: UG, PG, PHD")),
              Response(TooMany), Response(RetrieveError),
              Response(JsonError(200, "Failed")), Response(Text(200, "")),
              Response(Text(502, ""))}

NextApp ==
    \/ \E name \in NameInputs, rollNumber \in RollNumberInputs, level \in allowedLevels :
            handleSubmit(name, rollNumber, level)
    \/ \E o \in Outcomes(fetch) : FetchSettles(o)
    \/ BackToSearch
    \/ \E value \in NameInputs : handleNameChange(value)
    \/ \E value \in RollNumberInputs : handleRollNumberChange(value)
    \/ \E i \in 1..MaxShown : openImageModal(i)
    \/ closeImageModal

AppSpec == Init /\ [][NextApp]_vars

----------------------------------------------------------------------------
(* Vocabulary of the properties *)

\* slot r holds a request to /api/images that the limiter let through
ImagesRequest(r) == req[r].route = "images" /\ atStart[r].count <= rateMax

\* the level is one of the strings UG, PG, PHD
ValidLevel(x) == x.t = "string" /\ x.v \in {<<"U", "G">>, <<"P", "G">>, <<"P", "H", "D">>}

\* the text is exactly ten decimal digits
TenDigitText(s) == Len(s) = 10 /\ \A i \in 1..Len(s) : s[i] \in Digits

Rejected400(r) == res[r].status = 400 /\ res[r].kind = "error" /\ ~res[r].success

----------------------------------------------------------------------------
(* C1: a request to /api/images that reaches validateInput with a level that *)
(* is absent or not one of UG, PG, PHD is answered with status 400 and       *)
(* success:false, whatever its rollNumber is, in both builds.                *)
C1_InvalidLevelRejected ==
    \A r \in AllReqs :
        (ImagesRequest(r) /\ ~ValidLevel(req[r].level)) => Rejected400(r)

\* an invalid level next to a well-formed roll number, rejected
C1_Witness ==
    \E r \in AllReqs :
        /\ ImagesRequest(r)
        /\ req[r].level = S(<<"u", "g">>)
        /\ req[r].roll = S(D10)
        /\ Rejected400(r)

----------------------------------------------------------------------------
(* C2, as claimed: a request to /api/images carrying a rollNumber that is    *)
(* not exactly 10 decimal digits is answered with status 400, even when the  *)
(* level is valid.                                                           *)
C2_AsClaimed ==
    \A r \in AllReqs :
        (ImagesRequest(r) /\ req[r].roll.t # "undefined"
            /\ ~TenDigitText(StringOf(req[r].roll)) /\ Answered(r))
        => Rejected400(r)

(* C2, amended: in the roll-number build (part_000) a request to /api/images *)
(* that reaches validateInput is answered with status 400 when its           *)
(* rollNumber is absent, empty, or does not read as exactly 10 decimal       *)
(* digits, even when the level is valid; the level-only build (server.js)    *)
(* never looks at rollNumber and rejects no request with a valid level.      *)
C2_RollCheckedInRollBuild ==
    \A r \in AllReqs :
        ImagesRequest(r) =>
            /\ (variant = "roll" /\ ~TenDigitText(StringOf(req[r].roll)))
                    => Rejected400(r)
            /\ (variant = "roll" /\ ~Truthy(req[r].roll)) => Rejected400(r)
            /\ (variant = "level" /\ ValidLevel(req[r].level)) => ~Rejected400(r)

\* the roll-number build rejects an 11-digit roll number sent with a valid level
C2_Witness ==
    \E r \in AllReqs :
        /\ variant = "roll"
        /\ ImagesRequest(r)
        /\ req[r].level = S(UG)
        /\ req[r].roll = S(D11)
        /\ Rejected400(r)

----------------------------------------------------------------------------
(* Vocabulary: what the upstream calls of a request returned *)

FolderKinds == {"root", "level", "student"}

\* a folder lookup of slot r returned zero results
EmptyLookup(r) ==
    \E i \in DOMAIN calls[r] :
        calls[r][i].kind \in FolderKinds /\ calls[r][i].out = "ok" /\ calls[r][i].n = 0

\* an upstream call of slot r was rejected
FailedCall(r) == \E i \in DOMAIN calls[r] : calls[r][i].out = "error"

\* 200 {success: true, images: []}
EmptyOk(r) ==
    /\ res[r].status = 200
    /\ res[r].kind = "list"
    /\ res[r].success
    /\ res[r].images = <<>>

\* 500 {success: false, message: 'Error retrieving images'}
Generic500(r) ==
    /\ res[r].status = 500
    /\ res[r].kind = "error"
    /\ ~res[r].success
    /\ res[r].message = "Error retrieving images"

----------------------------------------------------------------------------
(* C3, as claimed: for a valid level, when an upstream folder lookup returns *)
(* zero results the request is answered with 200 {success:true, images:[]},  *)
(* never with a 4xx/5xx error.                                               *)
C3_AsClaimed ==
    \A r \in AllReqs :
        (ImagesRequest(r) /\ ValidLevel(req[r].level) /\ EmptyLookup(r)) => EmptyOk(r)

(* C3, amended: for a valid level, when an upstream folder lookup returns    *)
(* zero results while the handler is still waiting, the request is answered  *)
(* with 200 {success:true, images:[]}; when the 30-second timer has fired    *)
(* before the lookup returns, the request has already been answered with the *)
(* generic 500 and that answer stands.                                       *)
C3_EmptyLookupGivesEmptyList ==
    [][\A r \in AllReqs :
        (ImagesRequest(r) /\ ValidLevel(req[r].level) /\ ~EmptyLookup(r) /\ EmptyLookup(r)')
        => IF Answered(r)
           THEN timer[r] = "fired" /\ Generic500(r) /\ res'[r] = res[r]
           ELSE EmptyOk(r)' /\ pc'[r] = "done"]_vars

\* the level folder lookup returned nothing and the request got the empty list
C3_Witness ==
    \E r \in AllReqs :
        /\ ImagesRequest(r)
        /\ Len(calls[r]) = 2
        /\ calls[r][2].kind = "level" /\ calls[r][2].out = "ok" /\ calls[r][2].n = 0
        /\ EmptyOk(r)

----------------------------------------------------------------------------
(* Vocabulary: requests handled one after the other *)

\* slot b started after slot a had been answered
After(a, b) == a \in atStart[b].answered

RootCalls(r) == Cardinality({i \in DOMAIN calls[r] : calls[r][i].kind = "root"})

\* two requests to /api/images for the same valid level
SameLevel(a, b) ==
    /\ a # b
    /\ ImagesRequest(a) /\ ImagesRequest(b)
    /\ ValidLevel(req[a].level)
    /\ req[a].level = req[b].level

----------------------------------------------------------------------------
\* Node runs a timer that was set: the callback of setTimeout is called
FairSpec == Spec /\ \A r \in AllReqs : WF_vars(TimerFire(r))

\* the handler of slot r is awaiting the race between the chain and the timer
Waiting(r) == ImagesRequest(r) /\ timer[r] = "armed" /\ ~Answered(r)

(* C5: when the /api/images handler is still waiting as its 30-second timer  *)
(* fires, the request is answered with status 500 and the generic body       *)
(* {success:false, message:'Error retrieving images'}; so every validated    *)
(* request is eventually answered, even if an upstream call never returns.   *)
C5_TimeoutAnswers ==
    /\ [][\A r \in AllReqs :
            (Waiting(r) /\ timer'[r] = "fired") => Generic500(r)']_vars
    /\ \A r \in AllReqs : Waiting(r) ~> Answered(r)

\* the timer answered a request whose first upstream call never returned
C5_Witness ==
    \E r \in AllReqs :
        /\ ImagesRequest(r)
        /\ timer[r] = "fired"
        /\ Len(calls[r]) = 1 /\ calls[r][1].out = "pending"
        /\ Generic500(r)

----------------------------------------------------------------------------
(* C6, as claimed: when an upstream call made during folder resolution or    *)
(* image listing is rejected, the request is answered with a generic         *)
(* status-500 response {success:false, message}.                             *)
C6_AsClaimed ==
    \A r \in AllReqs :
        (ImagesRequest(r) /\ FailedCall(r)) =>
            (res[r].status = 500 /\ res[r].kind = "error" /\ ~res[r].success)

----------------------------------------------------------------------------
(* C7: for GET /api/image/:imageId, whenever the upstream metadata fetch or  *)
(* the upstream content fetch fails, the response has status 404 with the    *)
(* text 'Image not found', and no file bytes are streamed.                   *)
C7_ProxyFailureIs404 ==
    \A r \in AllReqs :
        (req[r].route = "image" /\ FailedCall(r)) =>
            /\ res[r].status = 404
            /\ res[r].kind = "text"
            /\ res[r].message = "Image not found"

\* the metadata was fetched, the content fetch failed, and the answer is 404
C7_Witness ==
    \E r \in AllReqs :
        /\ req[r].route = "image"
        /\ Len(calls[r]) = 2
        /\ calls[r][1].kind = "meta" /\ calls[r][1].out = "ok"
        /\ calls[r][2].kind = "media" /\ calls[r][2].out = "error"
        /\ res[r].status = 404

----------------------------------------------------------------------------
\* the image listing of slot r returned n files (0 when it has not returned)
Listed(r) ==
    IF calls[r] # <<>> /\ calls[r][Len(calls[r])].kind = "images"
          /\ calls[r][Len(calls[r])].out = "ok"
    THEN calls[r][Len(calls[r])].n
    ELSE 0

\* the i-th file of the upstream listing, as the response shows it
Shown(i) == [id |-> i, url |-> <<"/api/image/", i>>, type |-> "image/jpeg"]

(* C8: the images list of every /api/images response has at most 10,000      *)
(* entries, whatever number of files the upstream listing returns; it holds  *)
(* the files of the listing in upstream order, and exactly the first 10,000  *)
(* of them when upstream returns more.                                       *)
C8_AtMostTenThousand ==
    \A r \in AllReqs :
        /\ Len(res[r].images) <= 10000
        /\ res[r].kind = "list" =>
              res[r].images =
                  [i \in 1..(IF Listed(r) > 10000 THEN 10000 ELSE Listed(r)) |-> Shown(i)]

\* upstream listed more than 10,000 files and the response holds 10,000
C8_Witness ==
    \E r \in AllReqs :
        /\ Listed(r) > 10000
        /\ res[r].kind = "list"
        /\ Len(res[r].images) = 10000

----------------------------------------------------------------------------
(* C9: for each client IP, within one window of the limiter at most 100      *)
(* requests to routes under /api/ reach a route handler; image-list,         *)
(* image-proxy and other /api/ requests, and requests that validation then   *)
(* rejects, all count against the same limit; every further request of the   *)
(* IP in the window is rejected by the limiter and causes no upstream call.  *)
C9_HundredPerWindow ==
    /\ \A ip \in IPs :
          /\ passed[ip] <= 100
          /\ passed[ip] = IF hits[ip] > 100 THEN 100 ELSE hits[ip]
    /\ \A r \in AllReqs :
          /\ (req[r].route \in {"images", "image", "other"}) => atStart[r].count >= 1
          /\ atStart[r].count > 100 =>
                /\ res[r].status = 429
                /\ calls[r] = <<>>
                /\ timer[r] = "none"
                /\ pc[r] = "done"

\* the 101st request of an IP in a window, an image-proxy request, rejected
\* while the other IP has sent one request
C9_Witness ==
    \E r \in AllReqs, ip \in IPs :
        /\ req[r].ip = ip /\ req[r].route = "image"
        /\ atStart[r].count = 101
        /\ passed[ip] = 100
        /\ res[r].status = 429
        /\ calls[r] = <<>>
        /\ \E o \in IPs \ {ip} : hits[o] = 1

----------------------------------------------------------------------------
(* C10: a GET /api/images request rejected by validation (status 400) issues *)
(* no upstream storage call, starts no timeout timer and leaves folderCache  *)
(* unchanged.                                                                *)
C10_RejectionTouchesNothing ==
    /\ [][\A r \in AllReqs :
            (~Answered(r) /\ ImagesRequest(r)' /\ Rejected400(r)')
            => folderCache' = folderCache]_vars
    /\ [](\A r \in AllReqs :
            (ImagesRequest(r) /\ Rejected400(r))
            => (calls[r] = <<>> /\ timer[r] = "none" /\ pc[r] = "done"))

\* a request is rejected by validation while another one's chain is running
\* and the cache is filled
C10_Witness ==
    \E r, o \in AllReqs :
        /\ ImagesRequest(r) /\ Rejected400(r)
        /\ After(o, r) \/ pc[o] \in {"level", "student", "images"}
        /\ ImagesKey \in DOMAIN folderCache

----------------------------------------------------------------------------
(* C11 *)

\* the chain of slot r was started: the request passed the limiter and
\* validateInput, and the handler called the listing function
Started(r) == req[r].route = "images" /\ timer[r] # "none"

\* the positions in the log of slot r of its calls of one kind
Lookups(r, kind) == {i \in DOMAIN calls[r] : calls[r][i].kind = kind}

\* the kind of call that takes the level folder id as its parent
UnderLevel == IF variant = "roll" THEN "student" ELSE "images"

\* slot r found `key` in folderCache when it started
CachedAtStart(r, key) == key \in DOMAIN atStart[r].cache

\* C11: a key of folderCache is never removed, and a request that starts when
\* 'Images' (or 'Images/<level>') is in folderCache issues no upstream lookup
\* for that segment and hands the cached id to the call below it, whatever the
\* upstream replies to anyone else in the meantime
C11_CachedSegmentIsNeverLookedUp ==
    /\ [][\A k \in DOMAIN folderCache : k \in DOMAIN folderCache']_vars
    /\ [](\A r \in AllReqs : Started(r) =>
            /\ CachedAtStart(r, ImagesKey) =>
                  /\ Lookups(r, "root") = {}
                  /\ local[r].imagesFolderId = atStart[r].cache[ImagesKey]
                  /\ \A i \in Lookups(r, "level") :
                        calls[r][i].parent = atStart[r].cache[ImagesKey]
            /\ CachedAtStart(r, LevelKey(local[r].level)) =>
                  /\ Lookups(r, "level") = {}
                  /\ local[r].levelFolderId = atStart[r].cache[LevelKey(local[r].level)]
                  /\ \A i \in Lookups(r, UnderLevel) :
                        calls[r][i].parent = atStart[r].cache[LevelKey(local[r].level)])

\* a request that found both keys in folderCache was answered 200 from a
\* listing under the cached level folder, with no folder lookup of its own
C11_Witness ==
    \E r \in AllReqs :
        /\ Started(r)
        /\ CachedAtStart(r, ImagesKey)
        /\ CachedAtStart(r, LevelKey(local[r].level))
        /\ Lookups(r, "root") = {} /\ Lookups(r, "level") = {}
        /\ Lookups(r, UnderLevel) # {}
        /\ res[r].status = 200 /\ Len(res[r].images) > 0

----------------------------------------------------------------------------
(* C12 *)

\* a step in which the pending lookup of slot r of the given kind returns a
\* folder: the step that writes folderCache
Resolves(r, kind) ==
    /\ calls[r] # <<>>
    /\ calls[r][Len(calls[r])].kind = kind
    /\ calls[r][Len(calls[r])].out = "pending"
    /\ calls'[r][Len(calls[r])].out = "ok"
    /\ calls'[r][Len(calls[r])].n > 0

\* C12 as claimed: the value under a key of folderCache never changes after
\* its first write
C12_AsClaimed ==
    [][\A k \in DOMAIN folderCache : folderCache'[k] = folderCache[k]]_vars

\* C12, amended: each request that missed a key writes the id its own lookup
\* returned, over whatever is there; the value under a key is written by
\* nothing else, so it stays the same when the lookups return the same id and
\* is the last one written when they differ
C12_LastWriteStays ==
    [][/\ \A r \in AllReqs :
            /\ Resolves(r, "root") =>
                  /\ ~CachedAtStart(r, ImagesKey)
                  /\ folderCache'[ImagesKey] = local'[r].imagesFolderId
            /\ Resolves(r, "level") =>
                  /\ ~CachedAtStart(r, LevelKey(local[r].level))
                  /\ folderCache'[LevelKey(local[r].level)] = local'[r].levelFolderId
       /\ \A k \in DOMAIN folderCache' :
            (k \notin DOMAIN folderCache \/ folderCache'[k] # folderCache[k]) =>
                \E r \in AllReqs :
                    \/ k = ImagesKey /\ Resolves(r, "root")
                    \/ k = LevelKey(local[r].level) /\ Resolves(r, "level")]_vars

\* two requests missed 'Images' together and their lookups returned different
\* ids: folderCache holds the one written last
C12_Witness ==
    \E a, b \in AllReqs :
        /\ a # b /\ Started(a) /\ Started(b)
        /\ ~CachedAtStart(a, ImagesKey) /\ ~CachedAtStart(b, ImagesKey)
        /\ \E i \in Lookups(a, "root") : calls[a][i].out = "ok" /\ calls[a][i].n > 0
        /\ \E i \in Lookups(b, "root") : calls[b][i].out = "ok" /\ calls[b][i].n > 0
        /\ local[a].imagesFolderId # local[b].imagesFolderId
        /\ folderCache[ImagesKey] = local[b].imagesFolderId

----------------------------------------------------------------------------
(* C13 *)

\* the place of each listing call in the chain
Rank(kind) == CASE kind = "root" -> 1 [] kind = "level" -> 2
                [] kind = "student" -> 3 [] OTHER -> 4

\* the most listing calls one request can issue in this build
MostCalls == IF variant = "roll" THEN 4 ELSE 3

\* slot r has a call of this kind that returned a non-empty result
Returned(r, kind) ==
    \E i \in Lookups(r, kind) : calls[r][i].out = "ok" /\ calls[r][i].n > 0

\* the chain of slot r knows the root folder id, the level folder id
HasRoot(r) == CachedAtStart(r, ImagesKey) \/ Returned(r, "root")
HasLevel(r) ==
    HasRoot(r) /\ (CachedAtStart(r, LevelKey(local[r].level)) \/ Returned(r, "level"))

\* C13: the listing calls of one request are issued in the order root, level,
\* (roll number,) images, each after the one before it returned a non-empty
\* result, with one call for each segment that the request missed in the
\* cache and got to, and so at most 3 calls (4 in the roll-number build)
C13_OneCallAtATimeInOrder ==
    \A r \in AllReqs : Started(r) =>
        /\ \A i, j \in DOMAIN calls[r] :
              i < j => /\ Rank(calls[r][i].kind) < Rank(calls[r][j].kind)
                       /\ calls[r][i].out = "ok" /\ calls[r][i].n > 0
        /\ Cardinality(Lookups(r, "root")) = IF CachedAtStart(r, ImagesKey) THEN 0 ELSE 1
        /\ Cardinality(Lookups(r, "level")) =
              IF HasRoot(r) /\ ~CachedAtStart(r, LevelKey(local[r].level)) THEN 1 ELSE 0
        /\ Cardinality(Lookups(r, "student")) =
              IF variant = "roll" /\ HasLevel(r) THEN 1 ELSE 0
        /\ Cardinality(Lookups(r, "images")) =
              IF HasLevel(r) /\ (variant = "roll" => Returned(r, "student")) THEN 1 ELSE 0
        /\ \A i \in DOMAIN calls[r] : calls[r][i].kind \in {"root", "level", "student", "images"}
        /\ Len(calls[r]) <= MostCalls

\* a request of the roll-number build that missed both keys was answered
\* after four calls: root, level, roll number, images
C13_Witness ==
    \E r \in AllReqs :
        /\ Started(r) /\ variant = "roll"
        /\ Len(calls[r]) = 4
        /\ [i \in 1..4 |-> calls[r][i].kind] = <<"root", "level", "student", "images">>
        /\ calls[r][4].out = "ok"
        /\ res[r].status = 200

----------------------------------------------------------------------------
(* C14 *)

\* the request of slot r was answered 500 by the timer
TimedOut(r) == Started(r) /\ timer[r] = "fired" /\ res[r] = RetrieveError

\* the chain of slot r goes on: it has issued one more call, which is pending
GoesOn(r) ==
    /\ Len(calls'[r]) = Len(calls[r]) + 1
    /\ calls'[r][Len(calls'[r])].out = "pending"

\* C14: the chain of a request answered 500 by the timer is not cancelled: it
\* ends only when one of its calls has settled, a folder it resolves after the
\* timeout is written to folderCache and followed by the next call, and a
\* request that starts later finds the id and issues no lookup for it
C14_TimeoutDoesNotCancel ==
    /\ [](\A r \in AllReqs : Started(r) /\ pc[r] = "done" =>
              calls[r] # <<>> /\ calls[r][Len(calls[r])].out # "pending")
    /\ [][\A r \in AllReqs : TimedOut(r) =>
              /\ Resolves(r, "root") =>
                    /\ folderCache'[ImagesKey] = local'[r].imagesFolderId
                    /\ GoesOn(r)
              /\ Resolves(r, "level") =>
                    /\ folderCache'[LevelKey(local[r].level)] = local'[r].levelFolderId
                    /\ GoesOn(r)]_vars
    /\ [](\A a, b \in AllReqs :
              /\ TimedOut(a) /\ Started(b) /\ After(a, b)
              /\ \E i \in Lookups(a, "root") : calls[a][i].late
              /\ CachedAtStart(b, ImagesKey)
              => /\ Lookups(b, "root") = {}
                 /\ local[b].imagesFolderId = atStart[b].cache[ImagesKey])

\* a request timed out with its root lookup pending, the lookup then returned
\* a folder and the chain issued its next call; a request that started after
\* that looks its level folder up under the id written after the timeout
C14_Witness ==
    \E a, b \in AllReqs :
        /\ TimedOut(a) /\ Started(b) /\ After(a, b)
        /\ \E i \in Lookups(a, "root") : calls[a][i].late
        /\ Len(calls[a]) >= 2
        /\ CachedAtStart(b, ImagesKey)
        /\ atStart[b].cache[ImagesKey] = local[a].imagesFolderId
        /\ \E i \in Lookups(b, "level") : calls[b][i].parent = local[a].imagesFolderId

----------------------------------------------------------------------------
(* C15 *)

\* the /api/images request of slot r passed the limiter and validateInput
Validated(r) == ImagesRequest(r) /\ validateInput(req[r]) = NoRes

\* C15: a validated /api/images request gets a response, and the response it
\* got stands: neither the timer firing after the 200 nor the chain settling
\* after the timeout's 500 sends anything more, and a chain that is over
\* leaves no request unanswered
C15_ExactlyOneResponse ==
    /\ [][\A r \in AllReqs : Answered(r) => res'[r] = res[r]]_vars
    /\ [](\A r \in AllReqs : Validated(r) /\ pc[r] = "done" =>
              Answered(r) /\ res[r].status \in {200, 500})
    /\ \A r \in AllReqs : (Validated(r) /\ ~Answered(r)) ~> Answered(r)

\* one request was answered 200 and its timer fired afterwards; the other was
\* answered 500 by the timer and its chain settled afterwards
C15_Witness ==
    \E a, b \in AllReqs :
        /\ Validated(a) /\ res[a].status = 200 /\ timer[a] = "fired"
        /\ TimedOut(b) /\ pc[b] = "done"
        /\ calls[b] # <<>> /\ calls[b][Len(calls[b])].out # "pending"

----------------------------------------------------------------------------
(* C16 *)

\* 'Images/UG', 'Images/PG', 'Images/PHD'
LevelPath(L) == <<"I", "m", "a", "g", "e", "s", "/">> \o L
Levels == {<<"U", "G">>, <<"P", "G">>, <<"P", "H", "D">>}

\* some request looked up the folder of this kind and name and got `id`
ReturnedFor(kind, name, id) ==
    \E r \in AllReqs : \E i \in Lookups(r, kind) :
        /\ calls[r][i].name = name
        /\ calls[r][i].out = "ok" /\ calls[r][i].n > 0
        /\ id = IF kind = "root" THEN local[r].imagesFolderId ELSE local[r].levelFolderId

\* C16: folderCache has no key but 'Images' and 'Images/<L>' for the three
\* levels; the value under 'Images/<L>' is a non-empty id that a lookup for
\* the folder named <L> returned (and under 'Images', one that a lookup for
\* 'Images' returned); and what a request for level L lists is the folder
\* resolved for L: the one it found under 'Images/<L>' or looked up by that
\* name (in the roll-number build, the roll-number folder found in it)
C16_CacheHoldsResolvedLevelFolders ==
    /\ DOMAIN folderCache \subseteq {ImagesKey} \cup {LevelPath(L) : L \in Levels}
    /\ ImagesKey \in DOMAIN folderCache =>
          /\ folderCache[ImagesKey] # NoId
          /\ ReturnedFor("root", ImagesKey, folderCache[ImagesKey])
    /\ \A L \in Levels : LevelPath(L) \in DOMAIN folderCache =>
          /\ folderCache[LevelPath(L)] # NoId
          /\ ReturnedFor("level", L, folderCache[LevelPath(L)])
    /\ \A r \in AllReqs : Started(r) =>
          LET L == req[r].level.v
          IN  /\ L \in Levels /\ local[r].level = L
              /\ \A i \in Lookups(r, UnderLevel) :
                    /\ calls[r][i].parent = local[r].levelFolderId
                    /\ calls[r][i].parent # NoId
                    /\ \/ /\ LevelPath(L) \in DOMAIN atStart[r].cache
                          /\ calls[r][i].parent = atStart[r].cache[LevelPath(L)]
                       \/ \E j \in Lookups(r, "level") :
                             calls[r][j].name = L /\ calls[r][j].out = "ok" /\ j < i
              /\ variant = "roll" =>
                    \A i \in Lookups(r, "images") :
                        /\ calls[r][i].parent = local[r].folderId
                        /\ Returned(r, "student")
              /\ (res[r].status = 200 /\ res[r].images # <<>>) =>
                    /\ res[r].level = L
                    /\ Returned(r, "images")

\* folderCache holds different folders for UG and PG, each resolved by the
\* request for that level, and both requests were answered with images
C16_Witness ==
    \E a, b \in AllReqs :
        /\ Started(a) /\ Started(b)
        /\ req[a].level.v = <<"U", "G">> /\ req[b].level.v = <<"P", "G">>
        /\ LevelPath(<<"U", "G">>) \in DOMAIN folderCache
        /\ LevelPath(<<"P", "G">>) \in DOMAIN folderCache
        /\ folderCache[LevelPath(<<"U", "G">>)] = local[a].levelFolderId
        /\ folderCache[LevelPath(<<"P", "G">>)] = local[b].levelFolderId
        /\ local[a].levelFolderId # local[b].levelFolderId
        /\ Returned(a, "level") /\ Returned(b, "level")
        /\ res[a].status = 200 /\ res[a].images # <<>>
        /\ res[b].status = 200 /\ res[b].images # <<>>

----------------------------------------------------------------------------
(* C17 *)

\* the request of a fetchUserImages call ended in failure: no response, a
\* status outside 2xx, or a body with success false
FailedOutcome(o) ==
    \/ o.kind = "none"
    \/ o.res.status \notin 200..299
    \/ ~o.res.success

\* the step in which the fetchUserImages call finishes
Finishes == fetch.pos = "awaiting" /\ fetch'.pos = "done"

\* C17: a fetchUserImages call that ends in failure leaves submitted and
\* userImages as they were; submitted becomes true only as a call finishes
\* with a successful response; and loading is true while the call is awaited
\* and false once it has finished, however it ended
C17_FailedFetchChangesNothing ==
    /\ [][Finishes =>
            /\ loading' = FALSE
            /\ FailedOutcome(fetch'.outcome) =>
                  submitted' = submitted /\ userImages' = userImages]_vars
    /\ [][(~submitted /\ submitted') =>
            Finishes /\ ~FailedOutcome(fetch'.outcome)]_vars
    /\ [](loading <=> fetch.pos = "awaiting")

\* after a successful call and "Back to search", a second call failed with a
\* 200 body that says success false: the form is still shown, the images of
\* the first call are still in userImages, and loading is false
C17_Witness ==
    /\ fetch.pos = "done"
    /\ fetch.outcome.kind = "response"
    /\ fetch.outcome.res.status = 200 /\ ~fetch.outcome.res.success
    /\ ~submitted
    /\ userImages # <<>>
    /\ ~loading

====
